---------------------------- MODULE Spec2Model ----------------------------
(***************************************************************************)
(* Model of src/src/worker.js: the Engine.IO long-polling transport, the   *)
(* session registry, the mailbox index and the mail ingestion pipeline of  *)
(* the Workers rewrite of Forsaken Mail.                                   *)
(*                                                                         *)
(* JavaScript strings are TLA+ strings: one character of a TLA+ string is  *)
(* one UTF-16 code unit, as in JavaScript.  Positions are 0-based in the   *)
(* operators that model JavaScript string methods and are shifted to the   *)
(* 1-based positions of Sequences inside them.                             *)
(***************************************************************************)
EXTENDS Integers, Sequences, FiniteSets, TLC

VARIABLES
  sessions,      \* const sessions = new Map(): sid -> {shortid, queue, lastSeen}
  shortIdIndex,  \* const shortIdIndex = new Map(): shortid -> Set<sid>
  mails,         \* the D1 table mails, in insertion order
  env,           \* the worker's environment bindings (MAIL_DOMAIN, ...)
  now,           \* Date.now(), milliseconds
  issued,        \* how many session identifiers generateSid has returned
  tasks,         \* loadHistory invocations handed to ctx.waitUntil
  ingest,        \* the email() invocation in flight, between its awaits
  last,          \* the handler that ran last and the response it returned
  call           \* a single function under test (codec, sanitizer, ...)

vars == <<sessions, shortIdIndex, mails, env, now, issued, tasks, ingest, last, call>>

-----------------------------------------------------------------------------
(* Bounds of the model.                                                    *)

MaxPackets == 2       \* packets per payload handed to the codec
MaxPacketLen == 2     \* code units per packet handed to the codec
MaxInputLen == 3      \* code units of the short inputs of sanitizeShortId

-----------------------------------------------------------------------------
(* JavaScript string primitives.                                           *)

Min(a, b) == IF a < b THEN a ELSE b
Max(a, b) == IF a > b THEN a ELSE b

\* s[i], i 0-based; "" when i is outside the string.
CharAt(s, i) == IF i >= 0 /\ i < Len(s) THEN SubSeq(s, i + 1, i + 1) ELSE ""

\* An index argument of slice(): negative counts from the end, then clamped.
RelIndex(s, i) == IF i < 0 THEN Max(Len(s) + i, 0) ELSE Min(i, Len(s))

\* String.prototype.slice(from, to)
Slice(s, from, to) ==
  LET a == RelIndex(s, from)
      b == RelIndex(s, to)
  IN  IF a < b THEN SubSeq(s, a + 1, b) ELSE ""

\* String.prototype.slice(from)
SliceFrom(s, from) == Slice(s, from, Len(s))

\* String.prototype.startsWith(prefix)
StartsWith(s, prefix) ==
  Len(s) >= Len(prefix) /\ Slice(s, 0, Len(prefix)) = prefix

\* The least element of a non-empty set of integers.
Least(S) == CHOOSE i \in S : \A j \in S : i <= j

\* String.prototype.indexOf(ch, from) for a one-character ch.
indexOf(s, ch, from) ==
  LET hits == {i \in Max(from, 0)..(Len(s) - 1) : CharAt(s, i) = ch}
  IN  IF hits = {} THEN -1 ELSE Least(hits)

Digits == <<"0", "1", "2", "3", "4", "5", "6", "7", "8", "9">>
IsDigit(c) == \E d \in 1..10 : Digits[d] = c
DigitVal(c) == (CHOOSE d \in 1..10 : Digits[d] = c) - 1

\* The white space parseInt and trim() skip, as far as the model's alphabet has it.
IsSpace(c) == c \in {" ", "\t", "\n", "\r"}

RECURSIVE NatToStr(_)
NatToStr(n) ==
  IF n < 10 THEN Digits[n + 1] ELSE NatToStr(n \div 10) \o Digits[(n % 10) + 1]

\* String(n) / template interpolation of an integer.
IntToStr(n) == IF n < 0 THEN "-" \o NatToStr(0 - n) ELSE NatToStr(n)

\* The first position from i on that holds no white space (Len(s) at the end).
SkipSpace(s, i) == Least({j \in i..Max(i, Len(s)) : ~IsSpace(CharAt(s, j))})

RECURSIVE DigitsValue(_)
\* The number a string of digits denotes; 0 for "".
DigitsValue(ds) ==
  IF ds = "" THEN 0
  ELSE DigitsValue(SubSeq(ds, 1, Len(ds) - 1)) * 10 + DigitVal(CharAt(ds, Len(ds) - 1))

\* The value and length of the longest run of digits of s from position i.
DigitRun(s, i) ==
  LET len == Least({j \in i..Max(i, Len(s)) : ~IsDigit(CharAt(s, j))}) - i
  IN  [value |-> DigitsValue(Slice(s, i, i + len)), len |-> len]

\* parseInt(s, 10): leading white space, an optional sign, the longest run of
\* digits; NaN (finite = FALSE) when there is no digit.
parseInt(s) ==
  LET i == SkipSpace(s, 0)
      sign == CharAt(s, i)
      j == IF sign \in {"+", "-"} THEN i + 1 ELSE i
      run == DigitRun(s, j)
  IN  IF run.len = 0 THEN [finite |-> FALSE, value |-> 0]
      ELSE [finite |-> TRUE, value |-> IF sign = "-" THEN 0 - run.value ELSE run.value]

\* Bytes of the UTF-8 encoding of one code unit of the model's alphabet.
Utf8Len(c) == IF c \in {"é"} THEN 2 ELSE IF c \in {"€"} THEN 3 ELSE 1

\* The two halves of a string of two or more characters: the operators that map
\* over a string recurse on the halves.
FirstHalf(s) == SubSeq(s, 1, Len(s) \div 2)
SecondHalf(s) == SubSeq(s, (Len(s) \div 2) + 1, Len(s))

RECURSIVE ByteLength(_)
\* encoder.encode(s).length
ByteLength(s) ==
  IF s = "" THEN 0
  ELSE IF Len(s) = 1 THEN Utf8Len(s)
  ELSE ByteLength(FirstHalf(s)) + ByteLength(SecondHalf(s))

-----------------------------------------------------------------------------
(* PacketCodec.                                                            *)

RECURSIVE encodePayload(_)
encodePayload(packets) ==
  IF packets = <<>> THEN ""
  ELSE IntToStr(ByteLength(Head(packets))) \o ":" \o Head(packets)
         \o encodePayload(Tail(packets))

\* One iteration of decodePayload's loop from `offset`: stop, or one packet and
\* the next offset.
DecodeStep(body, offset) ==
  LET colon == indexOf(body, ":", offset)
      length == parseInt(Slice(body, offset, colon))
      start == colon + 1
  IN  IF ~(offset < Len(body)) \/ colon = -1 \/ ~length.finite
      THEN [stop |-> TRUE, packet |-> "", offset |-> offset]
      ELSE [stop |-> FALSE,
            packet |-> Slice(body, start, start + length.value),
            offset |-> start + length.value]

RECURSIVE DecodeLoop(_, _, _)
DecodeLoop(body, offset, packets) ==
  LET step == DecodeStep(body, offset)
  IN  IF step.stop THEN packets
      ELSE DecodeLoop(body, step.offset, Append(packets, step.packet))

decodePayload(body) == DecodeLoop(body, 0, <<>>)

-----------------------------------------------------------------------------
(* More string methods.                                                    *)

UpperCase == "ABCDEFGHIJKLMNOPQRSTUVWXYZ"
LowerCase == "abcdefghijklmnopqrstuvwxyz"

\* The set of the characters of a string.
CharsOf(s) == {CharAt(s, i) : i \in 0..(Len(s) - 1)}

UpperChars == CharsOf(UpperCase)
IsUpper(c) == c \in UpperChars

\* toLowerCase() of one code unit: the model's alphabet has no cased letter
\* outside A-Z.
LowerChar(c) == IF IsUpper(c) THEN CharAt(LowerCase, indexOf(UpperCase, c, 0)) ELSE c

RECURSIVE toLowerCase(_)
toLowerCase(s) ==
  IF Len(s) <= 1 THEN LowerChar(s)
  ELSE toLowerCase(FirstHalf(s)) \o toLowerCase(SecondHalf(s))

\* String.prototype.trim(): from the first to the last character that is no
\* white space.
trim(s) ==
  LET solid == {i \in 0..(Len(s) - 1) : ~IsSpace(CharAt(s, i))}
  IN  IF solid = {} THEN ""
      ELSE Slice(s, Least(solid), (CHOOSE i \in solid : \A j \in solid : j <= i) + 1)

RECURSIVE split(_, _)
\* String.prototype.split(sep) for a one-character separator.
split(s, sep) ==
  LET i == indexOf(s, sep, 0)
  IN  IF i = -1 THEN <<s>>
      ELSE <<Slice(s, 0, i)>> \o split(SliceFrom(s, i + 1), sep)

\* Array.prototype.includes on an array of strings.
includes(list, s) == \E i \in 1..Len(list) : list[i] = s

\* c is one of the characters of the set class.
InClass(c, class) == c \in class

\* The length of the longest run of characters of class from position i.
RunLength(s, i, class) ==
  Least({j \in i..Max(i, Len(s)) : ~InClass(CharAt(s, j), class)}) - i

\* \w of a regular expression without the u flag.
WordChars == CharsOf(UpperCase \o LowerCase \o "0123456789_")

-----------------------------------------------------------------------------
(* Configuration lists and addresses.                                      *)

\* An environment binding that is not set is the empty string: every use of a
\* binding in the source treats undefined and '' alike (!value, value || '').
Unset == ""

RECURSIVE TrimLowerNonEmpty(_)
\* .map(v => v.trim()).filter(Boolean).map(v => v.toLowerCase())
TrimLowerNonEmpty(items) ==
  IF items = <<>> THEN <<>>
  ELSE LET v == trim(Head(items))
       IN  (IF v = "" THEN <<>> ELSE <<toLowerCase(v)>>) \o TrimLowerNonEmpty(Tail(items))

parseList(value, fallback) ==
  IF value = "" THEN fallback ELSE TrimLowerNonEmpty(split(value, ","))

LocalChars == WordChars \cup {".", "+", "-"}    \* [\w.+-]
DomainChars == WordChars \cup {".", "-"}        \* [\w.-]

\* /([\w.+-]+)@([\w.-]+)/ matches at position i: a run of local characters
\* from i is followed by @ and at least one domain character.  Both groups are
\* greedy, and a shorter local run never helps: the character after it is a
\* local character, not @.
AddressMatchesAt(input, i) ==
  LET l == RunLength(input, i, LocalChars)
  IN  l >= 1 /\ CharAt(input, i + l) = "@" /\ RunLength(input, i + l + 1, DomainChars) >= 1

\* parseAddress: the groups of the leftmost match, in lowercase; matched =
\* FALSE is the source's null.
parseAddress(input) ==
  LET starts == {i \in 0..(Len(input) - 1) : AddressMatchesAt(input, i)}
      i == Least(starts)
      l == RunLength(input, i, LocalChars)
      d == RunLength(input, i + l + 1, DomainChars)
  IN  IF input = "" \/ starts = {} THEN [matched |-> FALSE, local |-> "", domain |-> ""]
      ELSE [matched |-> TRUE,
            local |-> toLowerCase(Slice(input, i, i + l)),
            domain |-> toLowerCase(Slice(input, i + l + 1, i + l + 1 + d))]

-----------------------------------------------------------------------------
(* Mailbox ids.                                                            *)

ShortIdLimit == 64

ShortIdChars == CharsOf(LowerCase \o "0123456789_-")    \* [a-z0-9_-]

RECURSIVE Keep(_, _)
\* .replace(/[^...]/g, ''): the characters of s that are in class, in order.
Keep(s, class) ==
  IF Len(s) <= 1 THEN (IF InClass(s, class) THEN s ELSE "")
  ELSE Keep(FirstHalf(s), class) \o Keep(SecondHalf(s), class)

\* sanitizeShortId with the characters stripped before the lowercasing.
sanitizeShortId_StripFirst(value) ==
  Slice(toLowerCase(Keep(value, ShortIdChars)), 0, ShortIdLimit)

sanitizeShortId(value) == Slice(Keep(toLowerCase(value), ShortIdChars), 0, ShortIdLimit)

-----------------------------------------------------------------------------
(* JSON.  A parsed value is a record [t, s, n, a]: its type, the text of a  *)
(* string, the value of a number, the elements of an array.  The parser    *)
(* covers the JSON texts over the model's alphabet: literals, integers,    *)
(* strings without escape sequences, arrays and objects.  Fractions,       *)
(* exponents and backslash escapes do not occur in the model's requests.   *)

JValue(t, s, n, a) == [t |-> t, s |-> s, n |-> n, a |-> a]
JUndefined == JValue("undefined", "", 0, <<>>)
JNull == JValue("null", "", 0, <<>>)
JTrue == JValue("true", "", 0, <<>>)
JFalse == JValue("false", "", 0, <<>>)
JObject == JValue("object", "", 0, <<>>)
JString(s) == JValue("string", s, 0, <<>>)
JNumber(n) == JValue("number", "", n, <<>>)
JArray(a) == JValue("array", "", 0, a)

\* A parse that failed, and one that read value v and stopped before position i.
ParseFail == [ok |-> FALSE, v |-> JUndefined, i |-> 0]
ParseOk(v, i) == [ok |-> TRUE, v |-> v, i |-> i]

\* A JSON string from the quote at position i.
ParseString(s, i) ==
  LET close == indexOf(s, "\"", i + 1)
      text == Slice(s, i + 1, close)
  IN  IF close = -1 \/ CharsOf(text) \cap {"\\", "\n", "\t", "\r"} # {} THEN ParseFail
      ELSE ParseOk(JString(text), close + 1)

\* A JSON integer from position i: -? (0 | [1-9][0-9]*)
ParseNumber(s, i) ==
  LET j == IF CharAt(s, i) = "-" THEN i + 1 ELSE i
      run == DigitRun(s, j)
  IN  IF run.len = 0 \/ (run.len > 1 /\ CharAt(s, j) = "0")
           \/ CharAt(s, j + run.len) \in {".", "e", "E"}
      THEN ParseFail
      ELSE ParseOk(JNumber(IF j > i THEN 0 - run.value ELSE run.value), j + run.len)

RECURSIVE ParseValue(_, _), ParseElements(_, _, _), ParseMembers(_, _)

\* A JSON value from position i, after white space.
ParseValue(s, i0) ==
  LET i == SkipSpace(s, i0)
      c == CharAt(s, i)
  IN  IF Slice(s, i, i + 4) = "null" THEN ParseOk(JNull, i + 4)
      ELSE IF Slice(s, i, i + 4) = "true" THEN ParseOk(JTrue, i + 4)
      ELSE IF Slice(s, i, i + 5) = "false" THEN ParseOk(JFalse, i + 5)
      ELSE IF c = "\"" THEN ParseString(s, i)
      ELSE IF c = "-" \/ IsDigit(c) THEN ParseNumber(s, i)
      ELSE IF c = "[" THEN
        (IF CharAt(s, SkipSpace(s, i + 1)) = "]"
         THEN ParseOk(JArray(<<>>), SkipSpace(s, i + 1) + 1)
         ELSE ParseElements(s, i + 1, <<>>))
      ELSE IF c = "{" THEN
        (IF CharAt(s, SkipSpace(s, i + 1)) = "}"
         THEN ParseOk(JObject, SkipSpace(s, i + 1) + 1)
         ELSE ParseMembers(s, SkipSpace(s, i + 1)))
      ELSE ParseFail

\* The elements of an array from position i, after those of acc.
ParseElements(s, i, acc) ==
  LET r == ParseValue(s, i)
      j == SkipSpace(s, r.i)
  IN  IF ~r.ok THEN ParseFail
      ELSE IF CharAt(s, j) = "," THEN ParseElements(s, j + 1, Append(acc, r.v))
      ELSE IF CharAt(s, j) = "]" THEN ParseOk(JArray(Append(acc, r.v)), j + 1)
      ELSE ParseFail

\* The members of an object from the key at position i.
ParseMembers(s, i) ==
  LET key == IF CharAt(s, i) = "\"" THEN ParseString(s, i) ELSE ParseFail
      colon == SkipSpace(s, key.i)
      r == ParseValue(s, colon + 1)
      j == SkipSpace(s, r.i)
  IN  IF ~key.ok \/ CharAt(s, colon) # ":" THEN ParseFail
      ELSE IF ~r.ok THEN ParseFail
      ELSE IF CharAt(s, j) = "," THEN ParseMembers(s, SkipSpace(s, j + 1))
      ELSE IF CharAt(s, j) = "}" THEN ParseOk(JObject, j + 1)
      ELSE ParseFail

\* JSON.parse(text): ok = FALSE is the SyntaxError it throws.
Whole(text, r) == IF r.ok /\ SkipSpace(text, r.i) = Len(text) THEN r ELSE ParseFail
JSONParse(text) == Whole(text, ParseValue(text, 0))

RECURSIVE EscapeJSON(_)
\* The characters of a string as JSON.stringify writes them between the quotes.
EscapeJSON(s) ==
  IF Len(s) > 1 THEN EscapeJSON(FirstHalf(s)) \o EscapeJSON(SecondHalf(s))
  ELSE IF s = "\"" THEN "\\\""
  ELSE IF s = "\\" THEN "\\\\"
  ELSE IF s = "\n" THEN "\\n"
  ELSE IF s = "\r" THEN "\\r"
  ELSE IF s = "\t" THEN "\\t"
  ELSE s

\* JSON.stringify of a string.
StringifyString(s) == "\"" \o EscapeJSON(s) \o "\""

\* JavaScript's truthiness of a parsed value.
Truthy(v) ==
  CASE v.t \in {"undefined", "null", "false"} -> FALSE
    [] v.t = "number" -> v.n # 0
    [] v.t = "string" -> v.s # ""
    [] OTHER -> TRUE

RECURSIVE StringOf(_), JoinElements(_)

\* String(v)
StringOf(v) ==
  CASE v.t = "string" -> v.s
    [] v.t = "number" -> IntToStr(v.n)
    [] v.t = "array" -> JoinElements(v.a)
    [] v.t = "object" -> "[object Object]"
    [] OTHER -> v.t

\* Array.prototype.join(): null and undefined elements are empty.
JoinElements(a) ==
  IF a = <<>> THEN ""
  ELSE (IF Head(a).t \in {"null", "undefined"} THEN "" ELSE StringOf(Head(a)))
         \o (IF Len(a) > 1 THEN "," \o JoinElements(Tail(a)) ELSE "")

\* const [eventName, data] = payload throws a TypeError unless payload is iterable.
Iterable(v) == v.t \in {"array", "string"}

\* The k-th value (from 1) the iteration of an array or a string yields.
Element(v, k) ==
  IF v.t = "array" THEN (IF k <= Len(v.a) THEN v.a[k] ELSE JUndefined)
  ELSE IF k <= Len(v.s) THEN JString(CharAt(v.s, k - 1))
  ELSE JUndefined

-----------------------------------------------------------------------------
(* IngestionPipeline: the decision of email().                             *)

DefaultBlacklist ==
  <<"admin", "master", "info", "mail", "webadmin",
    "webmaster", "noreply", "system", "postmaster">>

Accepted == ""

\* email() with the blacklist consulted before the allow-list domain.
emailChecks_BlacklistFirst(e, to, from) ==
  LET domain == trim(toLowerCase(e.MAIL_DOMAIN))
      preBlacklist == parseList(e.PRE_BLACKLIST, DefaultBlacklist)
      banFromDomain == parseList(e.BAN_SEND_FROM_DOMAIN, <<>>)
      toAddress == parseAddress(to)
      fromAddress == parseAddress(from)
  IN  IF ~toAddress.matched \/ toAddress.local = "" \/ toAddress.domain = ""
        THEN "invalid recipient"
      ELSE IF includes(preBlacklist, toAddress.local)
        THEN "recipient blacklisted"
      ELSE IF domain # "" /\ toAddress.domain # domain
        THEN "domain not accepted"
      ELSE IF fromAddress.matched /\ includes(banFromDomain, fromAddress.domain)
        THEN "sender domain blocked"
      ELSE Accepted

\* Lines 35-56 of email(): the reason of the rejection, or Accepted.
emailChecks(e, to, from) ==
  LET domain == trim(toLowerCase(e.MAIL_DOMAIN))
      preBlacklist == parseList(e.PRE_BLACKLIST, DefaultBlacklist)
      banFromDomain == parseList(e.BAN_SEND_FROM_DOMAIN, <<>>)
      toAddress == parseAddress(to)
      fromAddress == parseAddress(from)
  IN  IF ~toAddress.matched \/ toAddress.local = "" \/ toAddress.domain = ""
        THEN "invalid recipient"
      ELSE IF domain # "" /\ toAddress.domain # domain
        THEN "domain not accepted"
      ELSE IF includes(preBlacklist, toAddress.local)
        THEN "recipient blacklisted"
      ELSE IF fromAddress.matched /\ includes(banFromDomain, fromAddress.domain)
        THEN "sender domain blocked"
      ELSE Accepted

-----------------------------------------------------------------------------
(* Packets and ClientMail.                                                 *)

Connect == "40"     \* the Socket.IO connect acknowledgement a new queue holds
Ping == "2"
Pong == "3"
Noop == "6"
EventMarker == "42"

\* The Open packet of the handshake.
OpenPacket(sid) ==
  "0{\"sid\":\"" \o sid
    \o "\",\"upgrades\":[],\"pingInterval\":25000,\"pingTimeout\":20000}"

\* toEventPacket(event, payload), the payload already written as JSON.
toEventPacket(event, payloadJSON) ==
  EventMarker \o "[" \o StringifyString(event) \o "," \o payloadJSON \o "]"

RECURSIVE EscapeHTML(_)
EscapeHTML(s) ==
  IF Len(s) > 1 THEN EscapeHTML(FirstHalf(s)) \o EscapeHTML(SecondHalf(s))
  ELSE IF s = "&" THEN "&amp;"
  ELSE IF s = "<" THEN "&lt;"
  ELSE IF s = ">" THEN "&gt;"
  ELSE s

wrapPre(text) == "<pre>" \o EscapeHTML(text) \o "</pre>"

TwoDigits(n) == (IF n < 10 THEN "0" ELSE "") \o NatToStr(n)

\* new Date(seconds * 1000).toISOString() for a time on 1 January 1970, which
\* is every time of the model's clock.
toISOString(seconds) ==
  "1970-01-01T" \o TwoDigits(seconds \div 3600) \o ":" \o TwoDigits((seconds \div 60) % 60)
    \o ":" \o TwoDigits(seconds % 60) \o ".000Z"

\* a || b on strings
OrElse(a, b) == IF a = "" THEN b ELSE a

toClientMail(row) ==
  [subject |-> row.subject,
   text |-> row.body_text,
   date |-> toISOString(row.created_at),
   from |-> row.sender,
   texthtml |-> OrElse(row.body_html, row.body_text),
   html |-> OrElse(row.body_html, wrapPre(row.body_text))]

\* JSON.stringify of a ClientMail: its properties in the order toClientMail
\* creates them.
StringifyMail(m) ==
  "{\"subject\":" \o StringifyString(m.subject)
    \o ",\"text\":" \o StringifyString(m.text)
    \o ",\"date\":" \o StringifyString(m.date)
    \o ",\"from\":" \o StringifyString(m.from)
    \o ",\"texthtml\":" \o StringifyString(m.texthtml)
    \o ",\"html\":" \o StringifyString(m.html) \o "}"

ShortIdEvent(shortid) == toEventPacket("shortid", StringifyString(shortid))
MailEvent(clientMail) == toEventPacket("mail", StringifyMail(clientMail))

-----------------------------------------------------------------------------
(* MimeParser: parseEmail, handleBodies, getHeader.                        *)

\* The line terminators of the model's alphabet: what . of a regular
\* expression does not match, and what ^ and $ with the m flag stop at.
LineEnd(c) == c \in {"\n", "\r"}
AtLineEnd(s, i) == i >= Len(s) \/ LineEnd(CharAt(s, i))
AtLineStart(s, i) == i = 0 \/ LineEnd(CharAt(s, i - 1))

\* The length of the longest run of characters from position i that . matches.
LineRun(s, i) == Least({j \in i..Max(i, Len(s)) : AtLineEnd(s, j)}) - i

\* needle is in s at position i.
StartsAt(s, i, needle) == Slice(s, i, i + Len(needle)) = needle

\* String.prototype.includes(needle)
Contains(s, needle) == \E i \in 0..(Len(s) - Len(needle)) : StartsAt(s, i, needle)

\* The length of the match of /\r?\n\r?\n/ at position q, 0 when there is none.
BlankAt(s, q) ==
  LET a == IF CharAt(s, q) = "\r" THEN q + 1 ELSE q
      b == IF CharAt(s, a + 1) = "\r" THEN a + 2 ELSE a + 1
  IN  IF CharAt(s, a) = "\n" /\ CharAt(s, b) = "\n" THEN b + 1 - q ELSE 0

RECURSIVE splitBlankFrom(_, _)
splitBlankFrom(s, from) ==
  LET hits == {q \in from..(Len(s) - 1) : BlankAt(s, q) > 0}
  IN  IF hits = {} THEN <<Slice(s, from, Len(s))>>
      ELSE <<Slice(s, from, Least(hits))>>
             \o splitBlankFrom(s, Least(hits) + BlankAt(s, Least(hits)))

\* s.split(/\r?\n\r?\n/)
splitBlank(s) == splitBlankFrom(s, 0)

RECURSIVE join(_, _)
\* Array.prototype.join(sep)
join(list, sep) ==
  IF list = <<>> THEN ""
  ELSE IF Len(list) = 1 THEN list[1]
  ELSE list[1] \o sep \o join(Tail(list), sep)

\* Where the group (.+?) of /boundary="?(.+?)"?\r?$/im begins when "boundary="
\* is matched at p: behind an opening quote if something of the line follows it.
BoundaryStart(s, p) ==
  IF CharAt(s, p + 9) = "\"" /\ LineRun(s, p + 10) >= 1 THEN p + 10 ELSE p + 9

\* "?\r?$ matches at e.
BoundaryTail(s, e) ==
  \E e1 \in {e} \cup (IF CharAt(s, e) = "\"" THEN {e + 1} ELSE {}) :
    \E e2 \in {e1} \cup (IF CharAt(s, e1) = "\r" THEN {e1 + 1} ELSE {}) : AtLineEnd(s, e2)

\* headers.match(/boundary="?(.+?)"?\r?$/im): the leftmost "boundary=" in any
\* case that has something of its line behind it, and the shortest group.
boundaryMatch(headers) ==
  LET hits == {p \in 0..(Len(headers) - 10) :
                 /\ toLowerCase(Slice(headers, p, p + 9)) = "boundary="
                 /\ LineRun(headers, p + 9) >= 1}
  IN  IF hits = {} THEN [matched |-> FALSE, boundary |-> ""]
      ELSE LET c == BoundaryStart(headers, Least(hits))
               e == Least({j \in (c + 1)..(c + LineRun(headers, c)) : BoundaryTail(headers, j)})
           IN  [matched |-> TRUE, boundary |-> Slice(headers, c, e)]

RECURSIVE splitBoundaryFrom(_, _, _)
splitBoundaryFrom(s, from, delimiter) ==
  LET hits == {q \in from..(Len(s) - 1) : StartsAt(s, q, delimiter)}
      q == Least(hits)
      after == q + Len(delimiter)
  IN  IF hits = {} THEN <<Slice(s, from, Len(s))>>
      ELSE <<Slice(s, from, q)>>
             \o splitBoundaryFrom(s, IF StartsAt(s, after, "--") THEN after + 2 ELSE after,
                                   delimiter)

\* raw.split(new RegExp(`--${escapeRegex(boundary)}(?:--)?`)): escapeRegex makes
\* every character of the boundary stand for itself.
splitBoundary(raw, boundary) == splitBoundaryFrom(raw, 0, "--" \o boundary)

RECURSIVE trimmedSegments(_)
\* .map(s => s.trim()).filter(Boolean)
trimmedSegments(pieces) ==
  IF pieces = <<>> THEN <<>>
  ELSE (IF trim(Head(pieces)) = "" THEN <<>> ELSE <<trim(Head(pieces))>>)
         \o trimmedSegments(Tail(pieces))

\* const [h, ...b] = segment.split(/\r?\n\r?\n/)
partOf(pieces) == [headers |-> pieces[1], body |-> join(Tail(pieces), "\n\n")]

RECURSIVE stripTagsFrom(_, _)
stripTagsFrom(s, from) ==
  LET hits == {t \in from..(Len(s) - 1) :
                 CharAt(s, t) = "<" /\ indexOf(s, ">", t + 1) > t + 1}
  IN  IF hits = {} THEN Slice(s, from, Len(s))
      ELSE Slice(s, from, Least(hits)) \o " "
             \o stripTagsFrom(s, indexOf(s, ">", Least(hits) + 1) + 1)

\* html.replace(/<[^>]+>/g, ' ')
stripTags(html) == stripTagsFrom(html, 0)

RECURSIVE selectBodies(_, _, _)
\* parts.forEach of handleBodies: every part that matches assigns.
selectBodies(parts, text, html) ==
  IF parts = <<>> THEN [text |-> text, html |-> html]
  ELSE IF Contains(toLowerCase(Head(parts).headers), "text/html")
    THEN selectBodies(Tail(parts), text, trim(Head(parts).body))
  ELSE IF Contains(toLowerCase(Head(parts).headers), "text/plain")
    THEN selectBodies(Tail(parts), trim(Head(parts).body), html)
  ELSE selectBodies(Tail(parts), text, html)

\* The end of handleBodies: the body that is missing, made of the other.
fillBodies(text, html) ==
  [text |-> IF text = "" /\ html # "" THEN stripTags(html) ELSE text,
   html |-> IF html = "" /\ text # "" THEN wrapPre(text) ELSE html]

selectedBodies(selected) == fillBodies(selected.text, selected.html)

handleBodies(parts) == selectedBodies(selectBodies(parts, "", ""))

\* getHeader(headers, name): /^name:\s*(.*)$/im, the group trimmed.
getHeader(headers, name) ==
  LET hits == {p \in 0..(Len(headers) - 1) :
                 /\ AtLineStart(headers, p)
                 /\ toLowerCase(Slice(headers, p, p + Len(name) + 1)) = name \o ":"}
      c == SkipSpace(headers, Least(hits) + Len(name) + 1)
  IN  IF hits = {} THEN "" ELSE trim(Slice(headers, c, c + LineRun(headers, c)))

mailOf(subject, bodies) == [subject |-> subject, text |-> bodies.text, html |-> bodies.html]

RECURSIVE partsOf(_)
partsOf(segments) ==
  IF segments = <<>> THEN <<>>
  ELSE <<partOf(splitBlank(Head(segments)))>> \o partsOf(Tail(segments))

\* parseEmail after the header section has been cut off.
parseSections(raw, sections, found) ==
  mailOf(getHeader(sections[1], "subject"),
         IF ~found.matched THEN handleBodies(<<partOf(sections)>>)
         ELSE handleBodies(partsOf(trimmedSegments(splitBoundary(raw, found.boundary)))))

parseHeaders(raw, sections) == parseSections(raw, sections, boundaryMatch(sections[1]))

parseEmail(raw) == parseHeaders(raw, splitBlank(raw))

\* The raw text every message to the server of the model carries, and what
\* parseEmail makes of it.
EmptyRaw == ""
EmptyParsed == parseEmail(EmptyRaw)

-----------------------------------------------------------------------------
(* The bodies clients post.                                                *)

RequestShortId == "42[\"request shortid\"]"
SetShortId(name) == "42[\"set shortid\"," \o StringifyString(name) \o "]"

\* Well-formed batches, in the order of their packets.
PostBatches ==
  {<<Ping>>, <<RequestShortId>>, <<SetShortId("My Box!!")>>, <<Ping, SetShortId("!!")>>,
   <<"42{", Ping>>, <<"42[\"other\",1]">>, <<"42null", Ping>>}
\* Text that is no payload.
Malformed == "x:2"
PostBodies == {encodePayload(batch) : batch \in PostBatches} \cup {Malformed}

\* Requests for a mailbox of one's choice: names of the documented default
\* blacklist in two spellings, and a name that is on no list.
NameBodies == {encodePayload(<<SetShortId(name)>>) : name \in {"admin", "Info", "My Box!!"}}

\* decodePayload and JSON.parse of these bodies, computed once.
KnownBodies == PostBodies \cup NameBodies
DecodedBodies == [body \in KnownBodies |-> decodePayload(body)]
Range(f) == {f[x] : x \in DOMAIN f}
EventTexts == UNION {{SliceFrom(packet, 2) : packet \in Range(decodePayload(body))} :
                       body \in KnownBodies}
ParsedTexts == [text \in EventTexts |-> JSONParse(text)]
Cached(table, key, value) == IF key \in DOMAIN table THEN table[key] ELSE value
Decoded(body) == Cached(DecodedBodies, body, decodePayload(body))
Parsed(text) == Cached(ParsedTexts, text, JSONParse(text))

-----------------------------------------------------------------------------
(* SessionRegistry and MailboxBinding.  The operators below work on a      *)
(* store [sessions, index, tasks, threw]: the two maps, the loadHistory    *)
(* invocations handed to ctx.waitUntil and whether an exception is         *)
(* propagating.  A session object is named by the key it was registered    *)
(* under; generateSid never returns a key twice, so a key names one object.*)

IdleThreshold == 60 * 60 * 1000
HistoryLimit == 50

\* session.shortid = null
NoShortId == ""
\* The null getSidBySession returns for a session that is not in the registry.
Null == "null"

MapPut(m, k, v) == [x \in DOMAIN m \cup {k} |-> IF x = k THEN v ELSE m[x]]
MapDelete(m, k) == [x \in DOMAIN m \ {k} |-> m[x]]

\* crypto.randomUUID().replace(/-/g, ''): a fresh identifier at every call, here
\* the n-th of a fixed list (8 of its 32 hexadecimal digits).
generateSid(n) == "c0ffee" \o TwoDigits(n)

\* crypto.randomUUID().split('-')[0]: any 8 hexadecimal digits.
GenShortIds == {"0a1b2c3d"}

push(st, sid, packet) ==
  IF sid \in DOMAIN st.sessions
  THEN [st EXCEPT !.sessions[sid].queue = Append(@, packet)]
  ELSE st

\* drainQueue without session.queue.length = 0.
drainQueue_KeepsQueue(queue, allowNoop) ==
  IF queue = <<>> /\ allowNoop
  THEN [packets |-> <<Noop>>, queue |-> queue]
  ELSE [packets |-> queue, queue |-> queue]

drainQueue(queue, allowNoop) ==
  IF queue = <<>> /\ allowNoop
  THEN [packets |-> <<Noop>>, queue |-> queue]
  ELSE [packets |-> queue, queue |-> <<>>]

getSidBySession(registry, sid) == IF sid \in DOMAIN registry THEN sid ELSE Null

\* sids.delete(sid); if (!sids.size) shortIdIndex.delete(shortid)
Unindex(index, shortid, sid) ==
  IF shortid \notin DOMAIN index THEN index
  ELSE IF index[shortid] \ {sid} = {} THEN MapDelete(index, shortid)
  ELSE MapPut(index, shortid, index[shortid] \ {sid})

\* bindShortId without the removal from the set of the mailbox bound before.
bindShortId_KeepsOld(st, sid, shortid) ==
  LET me == getSidBySession(st.sessions, sid)
      set == IF shortid \in DOMAIN st.index THEN st.index[shortid] ELSE {}
  IN  [st EXCEPT !.sessions[sid].shortid = shortid,
                 !.index = MapPut(st.index, shortid, set \cup {me})]

bindShortId(st, sid, shortid) ==
  LET old == st.sessions[sid].shortid
      me == getSidBySession(st.sessions, sid)
      removed == IF old # NoShortId THEN Unindex(st.index, old, me) ELSE st.index
      set == IF shortid \in DOMAIN removed THEN removed[shortid] ELSE {}
  IN  [st EXCEPT !.sessions[sid].shortid = shortid,
                 !.index = MapPut(removed, shortid, set \cup {me})]

\* loadHistory(shortid, session, env) up to its first await.
spawnHistory(st, sid, shortid) ==
  [st EXCEPT !.tasks = Append(@, [sid |-> sid, shortid |-> shortid, pc |-> "query",
                                  rows |-> <<>>])]

\* bindShortId, the shortid event and the history load: what both events do
\* with the id they settle on.
assignShortId(st, sid, shortid) ==
  spawnHistory(push(bindShortId(st, sid, shortid), sid, ShortIdEvent(shortid)), sid, shortid)

\* The id a 'set shortid' event settles on.
settleShortId(requested, blacklist, randomId) ==
  IF requested = "" \/ includes(blacklist, requested) THEN randomId ELSE requested

\* handleEventPacket after JSON.parse: payload is what it returned, randomId
\* what generateShortId returns if it is called.
handleEvent(st, payload, sid, e, randomId) ==
  IF ~Iterable(payload) THEN [st EXCEPT !.threw = TRUE]
  ELSE IF Element(payload, 1) = JString("request shortid")
    THEN assignShortId(st, sid, randomId)
  ELSE IF Element(payload, 1) = JString("set shortid")
    THEN assignShortId(st, sid,
           settleShortId(sanitizeShortId(IF Truthy(Element(payload, 2))
                                         THEN StringOf(Element(payload, 2)) ELSE ""),
                         parseList(e.PRE_BLACKLIST, <<>>), randomId))
  ELSE st

\* try { payload = JSON.parse(packet.slice(2)) } catch (err) { return }
handleParsed(st, parsed, sid, e, randomId) ==
  IF ~parsed.ok THEN st ELSE handleEvent(st, parsed.v, sid, e, randomId)

handleEventPacket(st, packet, sid, e, randomId) ==
  handleParsed(st, Parsed(SliceFrom(packet, 2)), sid, e, randomId)

RECURSIVE handlePackets(_, _, _, _, _)
\* packets.forEach(...) of handlePollingPost: an exception ends the loop.
handlePackets(st, packets, sid, e, randomIds) ==
  IF packets = <<>> \/ st.threw THEN st
  ELSE LET packet == Head(packets)
           next == IF packet = Ping THEN push(st, sid, Pong)
                   ELSE IF StartsWith(packet, EventMarker)
                     THEN handleEventPacket(st, packet, sid, e, Head(randomIds))
                   ELSE st
       IN  handlePackets(next, Tail(packets), sid, e, Tail(randomIds))

RECURSIVE reap(_, _)
\* The body of the loop of cleanSessions for every expired session.
reap(st, expired) ==
  IF expired = {} THEN st
  ELSE LET sid == CHOOSE s \in expired : TRUE
           session == st.sessions[sid]
       IN  reap([st EXCEPT !.sessions = MapDelete(@, sid),
                           !.index = IF session.shortid # NoShortId
                                     THEN Unindex(@, session.shortid, sid) ELSE @],
                expired \ {sid})

\* cleanSessions without the removal from the mailbox set.
cleanSessions_KeepsIndex(st, t) ==
  [st EXCEPT !.sessions =
     [sid \in {x \in DOMAIN st.sessions : ~(t - st.sessions[x].lastSeen > IdleThreshold)}
        |-> st.sessions[sid]]]

\* cleanSessions with >= for >.
cleanSessions_Inclusive(st, t) ==
  reap(st, {sid \in DOMAIN st.sessions : t - st.sessions[sid].lastSeen >= IdleThreshold})

cleanSessions(st, t) ==
  reap(st, {sid \in DOMAIN st.sessions : t - st.sessions[sid].lastSeen > IdleThreshold})

\* notifyShortId pushing to every session of the registry.
notifyShortId_Broadcast(st, shortid, mail) ==
  IF shortid \notin DOMAIN st.index THEN st
  ELSE [st EXCEPT !.sessions =
          [sid \in DOMAIN st.sessions |->
             [st.sessions[sid] EXCEPT !.queue = Append(@, MailEvent(mail))]]]

notifyShortId(st, shortid, mail) ==
  IF shortid \notin DOMAIN st.index THEN st
  ELSE [st EXCEPT !.sessions =
          [sid \in DOMAIN st.sessions |->
             IF sid \in st.index[shortid]
             THEN [st.sessions[sid] EXCEPT !.queue = Append(@, MailEvent(mail))]
             ELSE st.sessions[sid]]]

-----------------------------------------------------------------------------
(* ProtocolEndpoint: the handlers of /socket.io/ as functions of the store,*)
(* each returning the store it leaves and the response it sends.           *)

Reply(st, status, out) == [st |-> st, status |-> status, out |-> out]

\* What the client receives when the handler throws.
Uncaught == "exception"

\* A session created with nothing to send.
NewSession_NoConnect(t) == [shortid |-> "", queue |-> <<>>, lastSeen |-> t]

NewSession(t) == [shortid |-> NoShortId, queue |-> <<Connect>>, lastSeen |-> t]

handlePollingGet(st, sid, newSid, t) ==
  IF sid = "" THEN
    LET drained == drainQueue(NewSession(t).queue, FALSE)
    IN  Reply([st EXCEPT !.sessions =
                 MapPut(@, newSid, [NewSession(t) EXCEPT !.queue = drained.queue])],
              200, encodePayload(<<OpenPacket(newSid)>> \o drained.packets))
  ELSE IF sid \notin DOMAIN st.sessions THEN Reply(st, 400, "unknown sid")
  ELSE
    LET drained == drainQueue(st.sessions[sid].queue, TRUE)
    IN  Reply([st EXCEPT !.sessions[sid] = [@ EXCEPT !.lastSeen = t, !.queue = drained.queue]],
              200, encodePayload(drained.packets))

\* handlePollingPost without cleanSessions().
finishPost_NoSweep(handled, t) ==
  IF handled.threw THEN Reply(handled, 500, Uncaught) ELSE Reply(handled, 200, "ok")

\* The end of handlePollingPost: cleanSessions and "ok", unless the loop threw.
finishPost(handled, t) ==
  IF handled.threw THEN Reply(handled, 500, Uncaught)
  ELSE Reply(cleanSessions(handled, t), 200, "ok")

handlePollingPost(st, sid, body, e, randomIds, t) ==
  IF sid = "" \/ sid \notin DOMAIN st.sessions THEN Reply(st, 400, "unknown sid")
  ELSE finishPost(handlePackets([st EXCEPT !.sessions[sid].lastSeen = t],
                                Decoded(body), sid, e, randomIds), t)

\* handleSocketIo without the check of the transport.
handleSocketIo_AnyTransport(st, request, e, newSid, randomIds, t) ==
  IF request.method = "GET" THEN handlePollingGet(st, request.sid, newSid, t)
  ELSE IF request.method = "POST"
    THEN handlePollingPost(st, request.sid, request.body, e, randomIds, t)
  ELSE Reply(st, 405, "method not allowed")

handleSocketIo(st, request, e, newSid, randomIds, t) ==
  IF request.transport # "polling" THEN Reply(st, 400, "transport not supported")
  ELSE IF request.method = "GET" THEN handlePollingGet(st, request.sid, newSid, t)
  ELSE IF request.method = "POST"
    THEN handlePollingPost(st, request.sid, request.body, e, randomIds, t)
  ELSE Reply(st, 405, "method not allowed")

-----------------------------------------------------------------------------
(* The state the functions under test leave alone.                         *)

NoEnv == [MAIL_DOMAIN |-> Unset, PRE_BLACKLIST |-> Unset, BAN_SEND_FROM_DOMAIN |-> Unset]
NoIngest == [pc |-> "none", to |-> "", from |-> "", subject |-> "", createdAt |-> 0]
NoLast == [kind |-> "none", method |-> "", transport |-> "", sid |-> "", body |-> "",
           status |-> 0, out |-> ""]

ServerIdle ==
  /\ sessions = <<>>
  /\ shortIdIndex = <<>>
  /\ mails = <<>>
  /\ now = 0
  /\ issued = 0
  /\ tasks = <<>>
  /\ ingest = NoIngest
  /\ last = NoLast

serverVars == <<sessions, shortIdIndex, mails, now, issued, tasks, ingest, last>>

RECURSIVE StringsUpTo(_, _)
\* Every string of at most n characters of the set alphabet.
StringsUpTo(alphabet, n) ==
  IF n = 0 THEN {""}
  ELSE LET shorter == StringsUpTo(alphabet, n - 1)
       IN  shorter \cup {s \o c : s \in shorter, c \in alphabet}

RECURSIVE Repeat(_, _)
Repeat(s, n) ==
  IF n = 0 THEN "" ELSE IF n = 1 THEN s ELSE Repeat(s, n \div 2) \o Repeat(s, n - (n \div 2))

-----------------------------------------------------------------------------
(* The codec on its own: encodePayload, then decodePayload one iteration   *)
(* of its loop at a time.                                                  *)

CodecAlphabet == {"a", "1", ":", "é", "€"}
CodecPackets == StringsUpTo(CodecAlphabet, MaxPacketLen)
CodecInputs == UNION {[1..n -> CodecPackets] : n \in 0..MaxPackets}

InitCodec ==
  /\ ServerIdle
  /\ env = NoEnv
  /\ \E input \in CodecInputs :
       call = [pc |-> "encode", input |-> input, body |-> "", offset |-> 0, packets |-> <<>>]

CodecEncode ==
  /\ call.pc = "encode"
  /\ call' = [call EXCEPT !.pc = "decode", !.body = encodePayload(call.input)]
  /\ UNCHANGED <<serverVars, env>>

CodecDecodeIterate ==
  /\ call.pc = "decode"
  /\ ~DecodeStep(call.body, call.offset).stop
  /\ call' = [call EXCEPT !.offset = DecodeStep(call.body, call.offset).offset,
                          !.packets = Append(@, DecodeStep(call.body, call.offset).packet)]
  /\ UNCHANGED <<serverVars, env>>

CodecDecodeReturn ==
  /\ call.pc = "decode"
  /\ DecodeStep(call.body, call.offset).stop
  /\ call' = [call EXCEPT !.pc = "done"]
  /\ UNCHANGED <<serverVars, env>>

NextCodec == CodecEncode \/ CodecDecodeIterate \/ CodecDecodeReturn

SpecCodec == InitCodec /\ [][NextCodec]_vars

\* C1: round trip of the packet codec: decodePayload(encodePayload(P)) = P for
\* every sequence P of packet strings, multi-byte characters included.
C1_RoundTrip == call.pc = "done" => call.packets = call.input

-----------------------------------------------------------------------------
(* sanitizeShortId on its own, applied once and then to its own result.    *)

SanitizeAlphabet == {"M", "y", " ", "!", "-", "_", "7", "é"}
HundredAllowed == Repeat("ab_-0", 20)
SanitizeInputs ==
  StringsUpTo(SanitizeAlphabet, MaxInputLen)
    \cup {"My Box!!", HundredAllowed, Repeat("Z!", 70), Repeat("q", ShortIdLimit),
          Repeat("q", ShortIdLimit + 1), Repeat("-", ShortIdLimit - 1)}

InitSanitize ==
  /\ ServerIdle
  /\ env = NoEnv
  /\ \E input \in SanitizeInputs :
       call = [pc |-> "input", input |-> input, once |-> "", twice |-> ""]

SanitizeOnce ==
  /\ call.pc = "input"
  /\ call' = [call EXCEPT !.pc = "once", !.once = sanitizeShortId(call.input)]
  /\ UNCHANGED <<serverVars, env>>

SanitizeTwice ==
  /\ call.pc = "once"
  /\ call' = [call EXCEPT !.pc = "twice", !.twice = sanitizeShortId(call.once)]
  /\ UNCHANGED <<serverVars, env>>

NextSanitize == SanitizeOnce \/ SanitizeTwice

SpecSanitize == InitSanitize /\ [][NextSanitize]_vars

C10_Allowed == CharsOf("abcdefghijklmnopqrstuvwxyz0123456789_-")
C10_OnlyAllowed(s) == \A i \in 0..(Len(s) - 1) : CharAt(s, i) \in C10_Allowed

\* C10: the sanitized mailbox id has only characters of [a-z0-9_-] and at most
\* 64 of them, sanitizing it again changes nothing, 'My Box!!' yields 'mybox'
\* and 100 allowed characters yield 64.
C10_Sanitize ==
  call.pc \in {"once", "twice"} =>
    /\ C10_OnlyAllowed(call.once)
    /\ Len(call.once) <= 64
    /\ call.input = "My Box!!" => call.once = "mybox"
    /\ (Len(call.input) = 100 /\ C10_OnlyAllowed(call.input)) => Len(call.once) = 64
    /\ call.pc = "twice" => call.twice = call.once

C10_Witness == call.pc = "twice" /\ call.input = "My Box!!" /\ call.twice = "mybox"

-----------------------------------------------------------------------------
(* The decision of email() on its own.                                     *)

IngestEnvs ==
  [MAIL_DOMAIN : {Unset, "example.com", " Example.COM "},
   PRE_BLACKLIST : {Unset, "MyBox, info,"},
   BAN_SEND_FROM_DOMAIN : {Unset, "Spam.Test ,x.y"}]
IngestRecipients ==
  {"Admin@example.com", "mybox@Example.com", "Info <info@example.com>",
   "admin@other.org", "mybox@other.org", "fresh@example.com", "nobody", "", "@example.com"}
IngestSenders == {"a@spam.test", "Eve <B@SPAM.TEST>", "c@ok.test", "", "garbage"}

InitIngest ==
  /\ ServerIdle
  /\ env \in IngestEnvs
  /\ \E to \in IngestRecipients, from \in IngestSenders :
       call = [pc |-> "received", to |-> to, from |-> from, reason |-> ""]

IngestDecide ==
  /\ call.pc = "received"
  /\ call' = [call EXCEPT !.pc = "decided", !.reason = emailChecks(env, call.to, call.from)]
  /\ UNCHANGED <<serverVars, env>>

NextIngest == IngestDecide

SpecIngest == InitIngest /\ [][NextIngest]_vars

\* The four checks of the ingestion decision, in the words of the specification.
C7_RecipientParses(to) ==
  parseAddress(to).matched /\ parseAddress(to).local # "" /\ parseAddress(to).domain # ""
C7_DomainAllowed(e, to) ==
  trim(toLowerCase(e.MAIL_DOMAIN)) = "" \/ parseAddress(to).domain = trim(toLowerCase(e.MAIL_DOMAIN))
C7_LocalNotBlacklisted(e, to) ==
  ~includes(parseList(e.PRE_BLACKLIST, DefaultBlacklist), parseAddress(to).local)
C7_SenderNotBanned(e, from) ==
  ~(parseAddress(from).matched
      /\ includes(parseList(e.BAN_SEND_FROM_DOMAIN, <<>>), parseAddress(from).domain))

\* C7: ingestion rejects with the reason of the first failing check, in the
\* order recipient parses, domain allowed, local part not blacklisted, sender
\* not banned, and accepts a message that passes all four; addresses compare in
\* lowercase, so Admin@example.com is blacklisted by the default list.
C7_CheckOrder ==
  call.pc = "decided" =>
    LET c1 == C7_RecipientParses(call.to)
        c2 == C7_DomainAllowed(env, call.to)
        c3 == C7_LocalNotBlacklisted(env, call.to)
        c4 == C7_SenderNotBanned(env, call.from)
    IN  /\ call.reason = "invalid recipient" <=> ~c1
        /\ call.reason = "domain not accepted" <=> (c1 /\ ~c2)
        /\ call.reason = "recipient blacklisted" <=> (c1 /\ c2 /\ ~c3)
        /\ call.reason = "sender domain blocked" <=> (c1 /\ c2 /\ c3 /\ ~c4)
        /\ call.reason = Accepted <=> (c1 /\ c2 /\ c3 /\ c4)
        /\ (call.to = "Admin@example.com" /\ env.MAIL_DOMAIN = "example.com"
              /\ env.PRE_BLACKLIST = Unset) => call.reason = "recipient blacklisted"

C7_Witness ==
  /\ call.pc = "decided"
  /\ call.to = "Admin@example.com"
  /\ env.MAIL_DOMAIN = "example.com"
  /\ env.PRE_BLACKLIST = Unset
  /\ call.reason = "recipient blacklisted"


-----------------------------------------------------------------------------
(* The server: requests to /socket.io/, inbound messages, the history      *)
(* loads handed to ctx.waitUntil and the clock.  Every action records in   *)
(* last what it was and what it answered.                                  *)

MaxSessions == 2    \* sessions ever created
MaxQueue == 2       \* packets waiting in one queue
MaxTasks == 1       \* history loads in flight
MaxMails == 1       \* rows of the mails table
MaxHours == 1       \* idle thresholds the clock advances by
MaxMs == 1          \* single milliseconds the clock advances by

Transports == {"polling", "websocket"}
UnknownSid == "deadbeef"
NoCall == [pc |-> "none"]

Request(method, transport, sid, body) ==
  [method |-> method, transport |-> transport, sid |-> sid, body |-> body]

store == [sessions |-> sessions, index |-> shortIdIndex, tasks |-> tasks, threw |-> FALSE]

\* The part of the state space a run explores: at most so many packets waiting
\* in a queue and so many history loads in flight.
Within(st, waiting, loads) ==
  /\ \A sid \in DOMAIN st.sessions : Len(st.sessions[sid].queue) <= waiting
  /\ Len(st.tasks) <= loads

Fits(st) == Within(st, MaxQueue, MaxTasks)

Creates(request) ==
  request.transport = "polling" /\ request.method = "GET" /\ request.sid = ""

\* The store and the response a request leaves.
RespondWithin(request, reply, loads) ==
  /\ Within(reply.st, MaxQueue, loads)
  /\ sessions' = reply.st.sessions
  /\ shortIdIndex' = reply.st.index
  /\ tasks' = reply.st.tasks
  /\ last' = [kind |-> "fetch", method |-> request.method,
              transport |-> request.transport, sid |-> request.sid,
              body |-> request.body, status |-> reply.status, out |-> reply.out]

Respond(request, reply) == RespondWithin(request, reply, MaxTasks)

\* fetch(request, env, ctx) for a path under /socket.io/.
FetchWithin(request, randomIds, loads) ==
  /\ Creates(request) => issued < MaxSessions
  /\ RespondWithin(request,
                   handleSocketIo(store, request, env, generateSid(issued + 1), randomIds, now),
                   loads)
  /\ issued' = IF Creates(request) THEN issued + 1 ELSE issued
  /\ UNCHANGED <<mails, env, now, ingest, call>>

Fetch(request, randomIds) == FetchWithin(request, randomIds, MaxTasks)

FetchGet(transport, sid) == Fetch(Request("GET", transport, sid, ""), <<>>)

FetchPost(transport, sid, body, randomIds) ==
  Fetch(Request("POST", transport, sid, body), randomIds)

FetchOther(method, transport, sid) == Fetch(Request(method, transport, sid, ""), <<>>)

Step(kind, status, out) ==
  [kind |-> kind, method |-> "", transport |-> "", sid |-> "", body |-> "",
   status |-> status, out |-> out]

MailRecipients == {"Me <MyBox@example.com>", "info@example.com"}
MailSenders == {"alice@ok.test"}
MailSubjects == {"<hi>"}

\* email() going on to store a message it has just rejected.
Decide_StoresRejected(reason, to, from, subject) ==
  /\ last' = Step("email", IF reason # Accepted THEN 550 ELSE 0, reason)
  /\ ingest' = [pc |-> "raw", to |-> to, from |-> from, subject |-> subject, createdAt |-> 0]

\* rejectEmail(message, reason), or the message on its way to the store.
Decide(reason, to, from, subject) ==
  IF reason # Accepted
  THEN /\ last' = Step("email", 550, reason)
       /\ UNCHANGED ingest
  ELSE /\ last' = Step("email", 0, "")
       /\ ingest' = [pc |-> "raw", to |-> to, from |-> from, subject |-> subject,
                     createdAt |-> 0]

\* email(): the checks, up to the read of message.raw.
EmailReceive(to, from, subject) ==
  /\ ingest.pc = "none"
  /\ Len(mails) < MaxMails
  /\ Decide(emailChecks(env, to, from), to, from, subject)
  /\ UNCHANGED <<sessions, shortIdIndex, mails, env, now, issued, tasks, call>>

\* email(): from the raw text to the INSERT it sends.
EmailParse ==
  /\ ingest.pc = "raw"
  /\ ingest' = [ingest EXCEPT !.pc = "insert", !.createdAt = now \div 1000]
  /\ last' = Step("email", 0, "")
  /\ UNCHANGED <<sessions, shortIdIndex, mails, env, now, issued, tasks, call>>

\* The row email() stores and announces.
RowOf(message, parsed) ==
  [recipient |-> parseAddress(message.to).local,
   subject |-> OrElse(message.subject, parsed.subject),
   body_text |-> parsed.text,
   body_html |-> parsed.html,
   sender |-> message.from,
   created_at |-> message.createdAt]

Row(message) == RowOf(message, EmptyParsed)

\* The INSERT takes effect.
EmailInsert ==
  /\ ingest.pc = "insert"
  /\ mails' = Append(mails, Row(ingest))
  /\ ingest' = [ingest EXCEPT !.pc = "notify"]
  /\ last' = Step("email", 0, "")
  /\ UNCHANGED <<sessions, shortIdIndex, env, now, issued, tasks, call>>

\* The queues an action leaves.
QueuesWithin(st, waiting) == Within(st, waiting, Len(st.tasks)) /\ sessions' = st.sessions

Queues(st) == QueuesWithin(st, MaxQueue)

\* email(): notifyShortId and the response.
EmailNotify ==
  /\ ingest.pc = "notify"
  /\ Queues(notifyShortId(store, parseAddress(ingest.to).local, toClientMail(Row(ingest))))
  /\ ingest' = NoIngest
  /\ last' = Step("email", 202, "stored")
  /\ UNCHANGED <<shortIdIndex, mails, env, now, issued, tasks, call>>

\* loadHistory without .reverse().
Reverse_NewestFirst(s) == s

Reverse(s) == [i \in 1..Len(s) |-> s[Len(s) + 1 - i]]
Remove(s, k) == SubSeq(s, 1, k - 1) \o SubSeq(s, k + 1, Len(s))

\* The orders ORDER BY created_at DESC may return the rows of a recipient in.
RECURSIVE DescendingOrders(_)
\* Every order of the rows of these numbers in which created_at never rises:
\* rows of one created_at come in any order.
DescendingOrders(rows) ==
  IF rows = {} THEN {<<>>}
  ELSE LET latest == {i \in rows : \A j \in rows : mails[i].created_at >= mails[j].created_at}
       IN  UNION {{<<i>> \o order : order \in DescendingOrders(rows \ {i})} : i \in latest}

Newest(recipient) ==
  DescendingOrders({i \in 1..Len(mails) : mails[i].recipient = recipient})

\* loadHistory: the SELECT takes effect.
HistoryQuery(k, order) ==
  LET limited == SubSeq(order, 1, Min(HistoryLimit, Len(order)))
  IN  /\ tasks[k].pc = "query"
      /\ tasks' = [tasks EXCEPT ![k] = [@ EXCEPT !.pc = "push",
                                           !.rows = Reverse([i \in 1..Len(limited) |-> mails[limited[i]]])]]
      /\ last' = Step("history", 0, "")
      /\ UNCHANGED <<sessions, shortIdIndex, mails, env, now, issued, ingest, call>>

\* rows.forEach(row => session.queue.push(...)): one push per row, in the
\* order of the rows, onto the queue of the session object the load holds.
pushRows(st, sid, rows) ==
  IF sid \in DOMAIN st.sessions
  THEN [st EXCEPT !.sessions[sid].queue =
          @ \o [a \in 1..Len(rows) |-> MailEvent(toClientMail(rows[a]))]]
  ELSE st

\* loadHistory: rows.forEach after the SELECT returned.
HistoryPushWithin(k, waiting) ==
  /\ tasks[k].pc = "push"
  /\ QueuesWithin(pushRows(store, tasks[k].sid, tasks[k].rows), waiting)
  /\ tasks' = Remove(tasks, k)
  /\ last' = Step("history", 0, "")
  /\ UNCHANGED <<shortIdIndex, mails, env, now, issued, ingest, call>>

HistoryPush(k) == HistoryPushWithin(k, MaxQueue)

\* Date.now() advances.
Tick(ms) ==
  /\ now + ms <= MaxHours * IdleThreshold + MaxMs
  /\ (now + ms) % IdleThreshold <= MaxMs
  /\ now' = now + ms
  /\ last' = Step("tick", 0, "")
  /\ UNCHANGED <<sessions, shortIdIndex, mails, env, issued, tasks, ingest, call>>

\* The deployments: nothing configured, and a domain with a blacklist of its own.
Configured == [MAIL_DOMAIN |-> "example.com", PRE_BLACKLIST |-> "MyBox, postmaster",
               BAN_SEND_FROM_DOMAIN |-> Unset]
ServerEnvs == {NoEnv, Configured}

Init ==
  /\ ServerIdle
  /\ env \in ServerEnvs
  /\ call = NoCall

IssuedSids == {generateSid(n) : n \in 1..issued}

\* Requests of clients that ask for a session or hold one.
Polls == \E sid \in {""} \cup IssuedSids : FetchGet("polling", sid)

Posts(bodies) ==
  \E sid \in IssuedSids, body \in bodies :
    \E randomIds \in [1..Len(Decoded(body)) -> GenShortIds] :
      FetchPost("polling", sid, body, randomIds)

\* Requests that name no session, another transport or another method.
Strays ==
  \/ FetchGet("polling", UnknownSid)
  \/ \E sid \in {"", UnknownSid} : FetchPost("polling", sid, encodePayload(<<Ping>>), <<"">>)
  \/ \E sid \in IssuedSids : FetchGet("websocket", sid)
  \/ \E sid \in IssuedSids : FetchPost("websocket", sid, encodePayload(<<Ping>>), <<"">>)
  \/ \E transport \in Transports : FetchOther("PUT", transport, "")

Loads ==
  \/ \E k \in 1..Len(tasks) : \E order \in Newest(tasks[k].shortid) : HistoryQuery(k, order)
  \/ \E k \in 1..Len(tasks) : HistoryPush(k)

Next ==
  \/ Polls
  \/ Posts(PostBodies)
  \/ Loads

Spec == Init /\ [][Next]_vars

\* The step just taken answered this request to /socket.io/.
Answered(method, sid) ==
  /\ last'.kind = "fetch"
  /\ last'.method = method
  /\ last'.transport = "polling"
  /\ last'.sid = sid

IsPrefix(s, u) == Len(s) <= Len(u) /\ SubSeq(u, 1, Len(s)) = s

\* C2: a GET without sid adds exactly one session to the registry, unbound and
\* under an identifier the registry did not hold; the response is the Open
\* packet with that identifier followed by "40", the new queue is empty after
\* it, and no other session, queue or mailbox set changes.
C2_Handshake ==
  [][Answered("GET", "") =>
       \E newSid \in DOMAIN sessions' \ DOMAIN sessions :
         /\ DOMAIN sessions' = DOMAIN sessions \cup {newSid}
         /\ sessions'[newSid].shortid = NoShortId
         /\ sessions'[newSid].queue = <<>>
         /\ last'.status = 200
         /\ last'.out = encodePayload(<<OpenPacket(newSid), "40">>)
         /\ \A sid \in DOMAIN sessions : sessions'[sid] = sessions[sid]
         /\ shortIdIndex' = shortIdIndex]_vars

\* A second session has just been opened beside a bound one with a packet waiting.
C2_Witness ==
  /\ last.kind = "fetch" /\ last.method = "GET" /\ last.sid = ""
  /\ last.out = "74:0{\"sid\":\"c0ffee02\",\"upgrades\":[],\"pingInterval\":25000,\"pingTimeout\":20000}2:40"
  /\ DOMAIN sessions = {"c0ffee01", "c0ffee02"}
  /\ sessions["c0ffee01"].shortid = "mybox"
  /\ sessions["c0ffee01"].queue # <<>>
  /\ sessions["c0ffee02"].queue = <<>>

\* C3: a GET with a known sid answers the No-op packet "6" when the queue is
\* empty and otherwise the queued packets in the order they were appended, never
\* an empty body, and leaves the queue empty; every other step only appends to
\* the tail of a queue, so a packet is returned by at most one GET and in FIFO
\* order.
C3_Fifo ==
  [][\A sid \in DOMAIN sessions :
       IF Answered("GET", sid)
       THEN /\ last'.status = 200
            /\ last'.out # ""
            /\ last'.out = encodePayload(IF sessions[sid].queue = <<>> THEN <<"6">>
                                         ELSE sessions[sid].queue)
            /\ sid \in DOMAIN sessions'
            /\ sessions'[sid].queue = <<>>
       ELSE sid \in DOMAIN sessions' =>
              IsPrefix(sessions[sid].queue, sessions'[sid].queue)]_vars

\* A GET has just returned a Pong and the shortid event queued after it.
C3_Witness ==
  /\ last.kind = "fetch" /\ last.method = "GET" /\ last.sid = "c0ffee01"
  /\ last.out = "1:321:42[\"shortid\",\"mybox\"]"
  /\ sessions["c0ffee01"].queue = <<>>

\* C4: a session identifier is in the set of at most one mailbox, and a bound
\* session is in the set of its current mailbox and of no other, whatever
\* 'request shortid' and 'set shortid' events came before.
C4_OneMailbox ==
  /\ \A a, b \in DOMAIN shortIdIndex : a # b => shortIdIndex[a] \cap shortIdIndex[b] = {}
  /\ \A sid \in DOMAIN sessions :
       sessions[sid].shortid # NoShortId =>
         \A m \in DOMAIN shortIdIndex : sid \in shortIdIndex[m] <=> m = sessions[sid].shortid
  /\ \A sid \in DOMAIN sessions :
       sessions[sid].shortid # NoShortId => sessions[sid].shortid \in DOMAIN shortIdIndex

\* A session bound to mybox has been rebound to a generated id; the other
\* session is still in the set of mybox.
C4_Witness ==
  /\ DOMAIN sessions = {"c0ffee01", "c0ffee02"}
  /\ sessions["c0ffee01"].queue = <<ShortIdEvent("mybox"), ShortIdEvent("0a1b2c3d")>>
  /\ sessions["c0ffee01"].shortid = "0a1b2c3d"
  /\ sessions["c0ffee02"].shortid = "mybox"
  /\ DOMAIN shortIdIndex = {"mybox", "0a1b2c3d"}
  /\ shortIdIndex["mybox"] = {"c0ffee02"}
  /\ shortIdIndex["0a1b2c3d"] = {"c0ffee01"}

\* C9: every POST against a known sid is answered "ok", whatever its body.
C9_AlwaysOk ==
  [][\A sid \in DOMAIN sessions :
       Answered("POST", sid) => last'.status = 200 /\ last'.out = "ok"]_vars

\* The packets of a batch that ask for an answer on the queue: a Ping, and an
\* event that binds a mailbox.
C16_Asks(packet) ==
  \/ packet = Ping
  \/ StartsWith(packet, "42[\"set shortid\"")
  \/ StartsWith(packet, "42[\"request shortid\"")

\* C16: a POST against a known sid appends to the queue of that session exactly
\* one Pong "3" per Ping "2" of the batch its body decodes to, in the order of
\* the packets of the batch, and changes the queue of no other session.
C16_PongPerPing ==
  [][\A sid \in DOMAIN sessions :
       Answered("POST", sid) =>
         /\ sid \in DOMAIN sessions'
         /\ IsPrefix(sessions[sid].queue, sessions'[sid].queue)
         /\ LET added == SubSeq(sessions'[sid].queue, Len(sessions[sid].queue) + 1,
                                Len(sessions'[sid].queue))
                asking == SelectSeq(decodePayload(last'.body), C16_Asks)
            IN  /\ Cardinality({i \in 1..Len(added) : added[i] = Pong})
                     = Cardinality({i \in 1..Len(asking) : asking[i] = Ping})
                /\ [i \in 1..Len(added) |-> added[i] = Pong]
                     = [i \in 1..Len(asking) |-> asking[i] = Ping]
         /\ \A other \in DOMAIN sessions \ {sid} :
              other \in DOMAIN sessions' /\ sessions'[other].queue = sessions[other].queue]_vars

-----------------------------------------------------------------------------
(* The server with its clock: bindings, the idle sweep and the requests    *)
(* it turns away.                                                          *)

SweepBodies == {encodePayload(<<SetShortId("My Box!!")>>)}

Ticks == \E ms \in {1, IdleThreshold} : Tick(ms)

NextSweep ==
  \/ Polls
  \/ Posts(SweepBodies)
  \/ Strays
  \/ Loads
  \/ Ticks

SpecSweep == Init /\ [][NextSweep]_vars

Idle(session, t) == t - session.lastSeen > IdleThreshold

\* C6: after the sweep at the end of a POST no session idle for more than 60
\* minutes is left in the registry or in a mailbox set, and every session idle
\* for 60 minutes or less, the one that posted among them, keeps its registry
\* entry; the others of them keep queue and binding as they were.
C6_Sweep ==
  [][\A poster \in DOMAIN sessions :
       (Answered("POST", poster) /\ last'.status = 200) =>
         /\ \A sid \in DOMAIN sessions' : ~Idle(sessions'[sid], now)
         /\ \A m \in DOMAIN shortIdIndex' : shortIdIndex'[m] \subseteq DOMAIN sessions'
         /\ poster \in DOMAIN sessions'
         /\ \A sid \in DOMAIN sessions \ {poster} :
              ~Idle(sessions[sid], now) =>
                /\ sid \in DOMAIN sessions'
                /\ sessions'[sid] = sessions[sid]
                /\ sessions[sid].shortid # NoShortId =>
                     /\ sessions[sid].shortid \in DOMAIN shortIdIndex'
                     /\ sid \in shortIdIndex'[sessions[sid].shortid]]_vars

\* The POST of the second session has just reaped the first, one millisecond
\* past the threshold, and left the mailbox set to the poster.
C6_Witness ==
  /\ last.kind = "fetch" /\ last.method = "POST" /\ last.sid = "c0ffee02" /\ last.out = "ok"
  /\ now = IdleThreshold + 1
  /\ issued = 2
  /\ DOMAIN sessions = {"c0ffee02"}
  /\ DOMAIN shortIdIndex = {"mybox"}
  /\ shortIdIndex["mybox"] = {"c0ffee02"}

\* C8: a GET or POST naming a sid the registry does not hold, a reaped one
\* included, and any request on another transport than polling, is answered
\* 400 and leaves registry, queues, last-activity times and index as they were.
C8_Rejected ==
  [][(/\ last'.kind = "fetch"
      /\ \/ last'.transport # "polling"
         \/ /\ last'.method \in {"GET", "POST"}
            /\ last'.sid # ""
            /\ last'.sid \notin DOMAIN sessions) =>
       /\ last'.status = 400
       /\ last'.out = IF last'.transport # "polling" THEN "transport not supported"
                      ELSE "unknown sid"
       /\ UNCHANGED <<sessions, shortIdIndex>>]_vars

\* A POST naming the reaped first session has just been turned away.
C8_Witness ==
  /\ last.kind = "fetch" /\ last.method = "POST" /\ last.transport = "polling"
  /\ last.sid = "c0ffee01"
  /\ last.status = 400 /\ last.out = "unknown sid"
  /\ issued = 2
  /\ DOMAIN sessions = {"c0ffee02"}

-----------------------------------------------------------------------------
(* The server with its mail: bindings, history loads and ingestion.        *)

MailBodies == {encodePayload(<<RequestShortId>>), encodePayload(<<SetShortId("My Box!!")>>)}

Mail ==
  \/ \E to \in MailRecipients, from \in MailSenders, subject \in MailSubjects :
       EmailReceive(to, from, subject)
  \/ EmailParse
  \/ EmailInsert
  \/ EmailNotify

NextMail ==
  \/ Polls
  \/ Posts(MailBodies)
  \/ Loads
  \/ Mail

SpecMail == Init /\ [][NextMail]_vars

\* C5: the notification of a stored message appends one mail event to the tail
\* of the queue of every session bound to its mailbox and changes nothing
\* else: no other queue, no registry entry, no mailbox set, and nothing is
\* kept for sessions that bind later.
C5_Notify ==
  [][(last'.kind = "email" /\ last'.status = 202) =>
       /\ DOMAIN sessions' = DOMAIN sessions
       /\ \A sid \in DOMAIN sessions :
            sessions'[sid] =
              IF sessions[sid].shortid = parseAddress(ingest.to).local
              THEN [sessions[sid] EXCEPT !.queue = Append(@, MailEvent(toClientMail(Row(ingest))))]
              ELSE sessions[sid]
       /\ UNCHANGED <<shortIdIndex, tasks, mails>>]_vars

\* The message for MyBox has just been announced to the session bound to mybox,
\* behind its shortid event, and not to the session bound to a generated id.
C5_Witness ==
  /\ last.kind = "email" /\ last.status = 202
  /\ DOMAIN sessions = {"c0ffee01", "c0ffee02"}
  /\ sessions["c0ffee01"].shortid = "mybox"
  /\ sessions["c0ffee01"].queue =
       <<"42[\"shortid\",\"mybox\"]",
         "42[\"mail\",{\"subject\":\"<hi>\",\"text\":\"\",\"date\":\"1970-01-01T00:00:00.000Z\",\"from\":\"alice@ok.test\",\"texthtml\":\"\",\"html\":\"<pre></pre>\"}]">>
  /\ sessions["c0ffee02"].shortid = "0a1b2c3d"
  /\ sessions["c0ffee02"].queue = <<"42[\"shortid\",\"0a1b2c3d\"]">>

\* C11: ingestion is all-or-nothing.  A rejected message stores no record and
\* appends to no queue; an accepted one stores exactly one record, under the
\* lowercase local part of its recipient, in a step that touches no queue, and
\* only afterwards appends one mail event to the queue of exactly the sessions
\* bound to that mailbox; no step of ingestion adds or removes a session,
\* changes a binding or a last-activity time, or changes a mailbox set.
C11_AllOrNothing ==
  [][last'.kind = "email" =>
       /\ DOMAIN sessions' = DOMAIN sessions
       /\ \A sid \in DOMAIN sessions :
            /\ sessions'[sid].shortid = sessions[sid].shortid
            /\ sessions'[sid].lastSeen = sessions[sid].lastSeen
       /\ shortIdIndex' = shortIdIndex
       /\ last'.status = 550 => (ingest.pc = "none" /\ UNCHANGED <<mails, sessions, ingest>>)
       /\ mails' # mails =>
            /\ ingest.pc = "insert"
            /\ Len(mails') = Len(mails) + 1
            /\ SubSeq(mails', 1, Len(mails)) = mails
            /\ mails'[Len(mails')].recipient = toLowerCase(parseAddress(ingest.to).local)
            /\ ingest.to = "Me <MyBox@example.com>" => mails'[Len(mails')].recipient = "mybox"
            /\ sessions' = sessions
       /\ last'.status = 202 =>
            /\ ingest.pc = "notify"
            /\ mails' = mails
            /\ Len(mails) >= 1
            /\ mails[Len(mails)] = Row(ingest)
            /\ \A sid \in DOMAIN sessions :
                 sessions'[sid].queue =
                   IF sessions[sid].shortid = mails[Len(mails)].recipient
                   THEN Append(sessions[sid].queue, MailEvent(toClientMail(mails[Len(mails)])))
                   ELSE sessions[sid].queue
       /\ sessions' # sessions => last'.status = 202]_vars

\* The message for MyBox is stored and has just been announced to the session
\* bound to mybox, while the other session, unbound, received nothing.
C11_Witness ==
  /\ last.kind = "email" /\ last.status = 202
  /\ Len(mails) = 1 /\ mails[1].recipient = "mybox"
  /\ DOMAIN sessions = {"c0ffee01", "c0ffee02"}
  /\ sessions["c0ffee01"].shortid = "mybox"
  /\ Len(sessions["c0ffee01"].queue) = 2
  /\ sessions["c0ffee02"].shortid = NoShortId
  /\ sessions["c0ffee02"].queue = <<>>

-----------------------------------------------------------------------------
(* The server with clients that choose the name of their mailbox.          *)

NextNames ==
  \/ Polls
  \/ Posts(NameBodies)
  \/ Loads

SpecNames == Init /\ [][NextNames]_vars

\* C12: no session is bound to an empty mailbox id or to one that ingestion
\* turns away as 'recipient blacklisted': a 'set shortid' whose sanitized id is
\* empty or on the local-part blacklist (the documented default list when none
\* is configured) settles on a generated id.
C12_NeverBlacklisted ==
  /\ "" \notin DOMAIN shortIdIndex
  /\ \A sid \in DOMAIN sessions :
       sessions[sid].shortid # NoShortId =>
         emailChecks(env, sessions[sid].shortid \o "@example.com", "alice@ok.test")
           # "recipient blacklisted"

C19_IsEvent(packet, name) == StartsWith(packet, "42[\"" \o name \o "\"")

\* C19: a stored record is appended to the queue of a session at most once per
\* bind, never both by the history load and by the notification: where a queue
\* holds the same mail event twice with no shortid event between the two, two
\* stored records read alike.
C19_NoDuplicate ==
  \A sid \in DOMAIN sessions :
    \A i, j \in 1..Len(sessions[sid].queue) :
      (/\ i < j
       /\ C19_IsEvent(sessions[sid].queue[i], "mail")
       /\ sessions[sid].queue[i] = sessions[sid].queue[j]
       /\ \A k \in (i + 1)..(j - 1) : ~C19_IsEvent(sessions[sid].queue[k], "shortid")) =>
        Cardinality({r \in 1..Len(mails) :
                       MailEvent(toClientMail(mails[r])) = sessions[sid].queue[i]}) >= 2

-----------------------------------------------------------------------------
(* The server over a table that earlier messages filled: bindings and the  *)
(* history loads they start.                                               *)

StoredRow(i, recipient, at) ==
  [recipient |-> recipient, subject |-> "m" \o NatToStr(i), body_text |-> "",
   body_html |-> "", sender |-> "alice@ok.test", created_at |-> at]

\* Tables in the order of their rowids: stored in the order of their times,
\* against it, with the two oldest rows of one second, and with every third
\* row of another mailbox.
Ascending(n) == [i \in 1..n |-> StoredRow(i, "mybox", i)]
Descending(n) == [i \in 1..n |-> StoredRow(i, "mybox", n + 1 - i)]
TiedOldest(n) == [i \in 1..n |-> StoredRow(i, "mybox", Max(i, 2))]
Shared(n) == [i \in 1..n |-> StoredRow(i, IF i % 3 = 0 THEN "other" ELSE "mybox", i)]

HistorySizes == {0, 1, 3, HistoryLimit - 1, HistoryLimit, HistoryLimit + 1, HistoryLimit + 2}
HistoryTables ==
  UNION {{Ascending(n), Descending(n), TiedOldest(n), Shared(n)} : n \in HistorySizes}
    \cup {Shared(HistoryLimit + (HistoryLimit \div 2) + 3)}

\* The second of the newest row of the largest table has passed.
InitHistory ==
  /\ sessions = <<>>
  /\ shortIdIndex = <<>>
  /\ mails \in HistoryTables
  /\ now = 100 * 1000
  /\ issued = 0
  /\ tasks = <<>>
  /\ ingest = NoIngest
  /\ last = NoLast
  /\ env = NoEnv
  /\ call = NoCall

HistoryLoads ==
  \/ \E k \in 1..Len(tasks) : \E order \in Newest(tasks[k].shortid) : HistoryQuery(k, order)
  \/ \E k \in 1..Len(tasks) : HistoryPushWithin(k, HistoryLimit)

NextHistory ==
  \/ Polls
  \/ Posts(SweepBodies)
  \/ HistoryLoads

SpecHistory == InitHistory /\ [][NextHistory]_vars

C13_Matching(shortid) == {i \in 1..Len(mails) : mails[i].recipient = shortid}

\* The rows a SELECT of loadHistory may hand over for this mailbox: as many as
\* the mailbox holds but at most 50, each a record of the mailbox and none
\* twice, no record left out that is newer than one of them, oldest first.
C13_MostRecent(rows, shortid) ==
  /\ Len(rows) = Min(50, Cardinality(C13_Matching(shortid)))
  /\ \A a \in 1..Len(rows) : \E i \in C13_Matching(shortid) : rows[a] = mails[i]
  /\ \A a, b \in 1..Len(rows) : a < b =>
       (rows[a] # rows[b] /\ rows[a].created_at <= rows[b].created_at)
  /\ \A i \in C13_Matching(shortid) :
       (\A a \in 1..Len(rows) : rows[a] # mails[i]) =>
         \A a \in 1..Len(rows) : mails[i].created_at <= rows[a].created_at

\* C13: a history load appends to the queue of its session one mail event per
\* record of the at most 50 most recent records of its mailbox, oldest first:
\* of more than 50 records exactly the 50 newest, and never an older record
\* behind a newer one.
C13_History ==
  [][last'.kind = "history" =>
       \A k \in 1..Len(tasks) :
         /\ (Len(tasks') = Len(tasks) /\ tasks[k].pc = "query" /\ tasks'[k].pc = "push") =>
              C13_MostRecent(tasks'[k].rows, tasks[k].shortid)
         /\ (tasks[k].pc = "push" /\ tasks' = Remove(tasks, k)) =>
              /\ DOMAIN sessions' = DOMAIN sessions
              /\ \A sid \in DOMAIN sessions :
                   sessions'[sid] =
                     IF sid = tasks[k].sid
                     THEN [sessions[sid] EXCEPT !.queue =
                             @ \o [a \in 1..Len(tasks[k].rows) |->
                                     MailEvent(toClientMail(tasks[k].rows[a]))]]
                     ELSE sessions[sid]]_vars

\* Of 52 records stored in the order of their times, the history load has just
\* appended the 50 newest, the third record first and the last one last.
C13_Witness ==
  /\ last.kind = "history"
  /\ tasks = <<>>
  /\ mails = Ascending(HistoryLimit + 2)
  /\ "c0ffee01" \in DOMAIN sessions
  /\ Len(sessions["c0ffee01"].queue) = HistoryLimit
  /\ sessions["c0ffee01"].queue[1] = MailEvent(toClientMail(mails[3]))
  /\ sessions["c0ffee01"].queue[HistoryLimit] = MailEvent(toClientMail(mails[HistoryLimit + 2]))

-----------------------------------------------------------------------------
(* The server with a client that goes away: from some moment on, no        *)
(* request names its session, while the clock runs and the other clients   *)
(* go on polling and posting.                                              *)

\* The client that goes away is the one of call.sid.
InitLive ==
  /\ ServerIdle
  /\ env \in ServerEnvs
  /\ \E n \in 1..MaxSessions : call = [pc |-> "present", sid |-> generateSid(n)]

Silent == IF call.pc = "silent" THEN {call.sid} ELSE {}

GoSilent ==
  /\ call.pc = "present"
  /\ call' = [call EXCEPT !.pc = "silent"]
  /\ last' = Step("silent", 0, "")
  /\ UNCHANGED <<sessions, shortIdIndex, mails, env, now, issued, tasks, ingest>>

LivePolls == \E sid \in ({""} \cup IssuedSids) \ Silent : FetchGet("polling", sid)

LivePosts ==
  \E sid \in IssuedSids \ Silent, body \in SweepBodies :
    \E randomIds \in [1..Len(Decoded(body)) -> GenShortIds] :
      FetchPost("polling", sid, body, randomIds)

NextLive ==
  \/ GoSilent
  \/ LivePolls
  \/ LivePosts
  \/ Loads
  \/ Ticks

\* The step is a POST that a client that is present sent against a known
\* session and that handlePollingPost went through to its end.
PostAnswered ==
  /\ last'.kind = "fetch"
  /\ last'.method = "POST"
  /\ last'.status = 200
  /\ last'.sid \notin Silent

\* Time advances as long as the run has time left, a history load that was
\* started returns, and POSTs against known sessions keep occurring.
SpecLive ==
  /\ InitLive
  /\ [][NextLive]_vars
  /\ WF_vars(Ticks)
  /\ WF_vars(Loads)
  /\ []<><<PostAnswered>>_vars

\* The clock of the run goes past the idle threshold of this session.
C14_ClockPasses(session) == session.lastSeen + IdleThreshold < MaxHours * IdleThreshold + MaxMs

-----------------------------------------------------------------------------
(* parseEmail on its own, over messages built from their parts.            *)

MaxParts == 3     \* subparts of a message

MimeKinds ==
  {[type |-> "text/plain", body |-> "Hi"],
   [type |-> "text/plain", body |-> "1 < 2 & 3"],
   [type |-> "text/html", body |-> "<b>Hi</b>"],
   [type |-> "Text/HTML", body |-> "<i>x</i><br>"],
   [type |-> "image/png", body |-> "iVBORw0KGgo="]}
LineBreaks == {"\n", "\r\n"}

RECURSIVE MimeBody(_, _)
MimeBody(parts, eol) ==
  IF parts = <<>> THEN "--b1--" \o eol
  ELSE "--b1" \o eol \o "Content-Type: " \o Head(parts).type \o "; charset=utf-8" \o eol
         \o eol \o Head(parts).body \o eol \o MimeBody(Tail(parts), eol)

\* A multipart message of these parts, and a message that is its one part.
Multipart(parts, eol) ==
  "Subject: Greeting" \o eol \o "Content-Type: multipart/alternative; boundary=\"b1\""
    \o eol \o eol \o MimeBody(parts, eol)
SinglePart(part, eol) ==
  "Content-Type: " \o part.type \o eol \o "SUBJECT:  Greeting " \o eol \o eol \o part.body \o eol

MimePartLists == UNION {[1..n -> MimeKinds] : n \in 1..MaxParts}

InitMime ==
  /\ ServerIdle
  /\ env = NoEnv
  /\ \E eol \in LineBreaks :
       \/ \E parts \in MimePartLists :
            call = [pc |-> "raw", raw |-> Multipart(parts, eol), parts |-> parts,
                    subject |-> "", text |-> "", html |-> ""]
       \/ \E part \in MimeKinds :
            call = [pc |-> "raw", raw |-> SinglePart(part, eol), parts |-> <<part>>,
                    subject |-> "", text |-> "", html |-> ""]

MimeReturn(parsed) ==
  call' = [call EXCEPT !.pc = "parsed", !.subject = parsed.subject, !.text = parsed.text,
                       !.html = parsed.html]

MimeParse ==
  /\ call.pc = "raw"
  /\ MimeReturn(parseEmail(call.raw))
  /\ UNCHANGED <<serverVars, env>>

NextMime == MimeParse

SpecMime == InitMime /\ [][NextMime]_vars

C15_OfType(parts, type) == {i \in 1..Len(parts) : toLowerCase(parts[i].type) = type}

\* C15: of the subparts of a message in their order, the first whose header
\* block contains text/html is the HTML body and the first whose header block
\* contains text/plain is the text body; a later part of the same type never
\* replaces an earlier one.  When only one of the two exists the other is made
\* of it: the text in <pre> with &, < and > escaped, the HTML with its tags
\* stripped.
C15_FirstMatch ==
  call.pc = "parsed" =>
    LET htmls == C15_OfType(call.parts, "text/html")
        plains == C15_OfType(call.parts, "text/plain")
    IN  /\ htmls # {} => call.html = call.parts[Least(htmls)].body
        /\ plains # {} => call.text = call.parts[Least(plains)].body
        /\ (htmls = {} /\ plains # {}) => call.html = wrapPre(call.text)
        /\ (plains = {} /\ htmls # {}) => call.text = stripTags(call.html)
        /\ (htmls = {} /\ plains = {}) => (call.text = "" /\ call.html = "")

-----------------------------------------------------------------------------
(* decodePayload on its own, over any text a client may post, one          *)
(* iteration of its loop at a time.                                        *)

MaxBodyLen == 4       \* characters of a posted body
MaxIterations == 3    \* iterations of the loop a run follows

DecodeAlphabet == {"-", "0", "3", ":", "a"}
DecodeBodies == StringsUpTo(DecodeAlphabet, MaxBodyLen)

InitDecode ==
  /\ ServerIdle
  /\ env = NoEnv
  /\ \E body \in DecodeBodies :
       call = [pc |-> "decode", input |-> <<>>, body |-> body, offset |-> 0, packets |-> <<>>]

DecodeIterate == Len(call.packets) < MaxIterations /\ CodecDecodeIterate

NextDecode == DecodeIterate \/ CodecDecodeReturn

SpecDecode == InitDecode /\ [][NextDecode]_vars

\* C17: decodePayload terminates on every body, whatever its length prefixes:
\* every iteration of its loop leaves the read offset greater than it was, so
\* the loop ends after at most as many iterations as the body has characters.
C17_OffsetGrows ==
  [][(call.pc = "decode" /\ call'.pc = "decode") => call'.offset > call.offset]_vars

-----------------------------------------------------------------------------
(* The server with everything at once: requests, both events, history      *)
(* loads, ingestion and the clock.                                         *)

\* Nothing is configured: 'set shortid' and 'request shortid' bind two mailboxes.
InitAll ==
  /\ ServerIdle
  /\ env = NoEnv
  /\ call = NoCall

\* Messages for the mailbox that 'set shortid' binds.
MailForMyBox ==
  \/ EmailReceive("Me <MyBox@example.com>", "alice@ok.test", "<hi>")
  \/ EmailParse
  \/ EmailInsert
  \/ EmailNotify

\* The clock passes the idle threshold in one step.
LongTick == Tick(IdleThreshold + 1)

NextAll ==
  \/ Polls
  \/ Posts(MailBodies)
  \/ Loads
  \/ MailForMyBox
  \/ LongTick

SpecAll == InitAll /\ [][NextAll]_vars

\* C18: registry and mailbox index agree in every reachable state: a session
\* identifier is in the set of mailbox m exactly if the registry holds it and
\* its session is bound to m; no set holds the identifier of a reaped or
\* unknown session or the null identifier, and no set is empty.
C18_Consistent ==
  /\ \A m \in DOMAIN shortIdIndex :
       /\ shortIdIndex[m] # {}
       /\ Null \notin shortIdIndex[m]
       /\ \A sid \in shortIdIndex[m] : sid \in DOMAIN sessions /\ sessions[sid].shortid = m
  /\ \A sid \in DOMAIN sessions :
       sessions[sid].shortid # NoShortId =>
         /\ sessions[sid].shortid \in DOMAIN shortIdIndex
         /\ sid \in shortIdIndex[sessions[sid].shortid]

\* The first session, bound to mybox and with a mail event waiting, has been
\* reaped by the POST of the second, which is bound to a generated id.
C18_Witness ==
  /\ last.kind = "fetch" /\ last.method = "POST" /\ last.sid = "c0ffee02" /\ last.out = "ok"
  /\ Len(mails) = 1 /\ mails[1].recipient = "mybox"
  /\ ingest.pc = "none"
  /\ now > IdleThreshold
  /\ issued = 2
  /\ DOMAIN sessions = {"c0ffee02"}
  /\ DOMAIN shortIdIndex = {"0a1b2c3d"}
  /\ shortIdIndex["0a1b2c3d"] = {"c0ffee02"}

-----------------------------------------------------------------------------
(* The server with clients that change their mailbox while the history of  *)
(* the mailbox they leave is still being loaded.                           *)

\* One message for mybox has been stored.
InitRebind ==
  /\ sessions = <<>>
  /\ shortIdIndex = <<>>
  /\ mails = Ascending(1)
  /\ now = 100 * 1000
  /\ issued = 0
  /\ tasks = <<>>
  /\ ingest = NoIngest
  /\ last = NoLast
  /\ env = NoEnv
  /\ call = NoCall

\* POSTs that may start a history load while another one is in flight.
PostsWithin(bodies, loads) ==
  \E sid \in IssuedSids, body \in bodies :
    \E randomIds \in [1..Len(Decoded(body)) -> GenShortIds] :
      FetchWithin(Request("POST", "polling", sid, body), randomIds, loads)

NextRebind ==
  \/ Polls
  \/ PostsWithin(MailBodies, MaxTasks + 1)
  \/ Loads

SpecRebind == InitRebind /\ [][NextRebind]_vars

\* C20: a session only receives mail of its current mailbox: in every queue,
\* a mail event behind a shortid event is the event of a stored record of the
\* mailbox that the nearest shortid event before it names.
C20_CurrentMailbox ==
  \A sid \in DOMAIN sessions :
    \A i, j \in 1..Len(sessions[sid].queue) :
      (/\ i < j
       /\ C19_IsEvent(sessions[sid].queue[i], "shortid")
       /\ C19_IsEvent(sessions[sid].queue[j], "mail")
       /\ \A k \in (i + 1)..(j - 1) : ~C19_IsEvent(sessions[sid].queue[k], "shortid")) =>
        \E r \in 1..Len(mails) :
          /\ sessions[sid].queue[i] = ShortIdEvent(mails[r].recipient)
          /\ sessions[sid].queue[j] = MailEvent(toClientMail(mails[r]))

=============================================================================
